---- MODULE Spec2Model ----
(***************************************************************************)
(* The segmentation-quality evaluator of src/src/word_seg.py:              *)
(* do_evaluation (lines 270-337) reads a file of "char TAB expected_tag    *)
(* TAB actual_tag" lines, one sentence per blank-line-terminated block,    *)
(* rebuilds the expected and the actual word lists and aligns them; main   *)
(* (lines 386-387) derives precision and recall from the returned counts.  *)
(*                                                                         *)
(* A string is a sequence of one-character strings, so that strip, split,  *)
(* len and + are computed as Python computes them.  The file is read one   *)
(* line per step; the line is an input of the step.  The trailing newline  *)
(* of a line is not represented: strip() removes it with the rest of the   *)
(* surrounding whitespace.                                                 *)
(***************************************************************************)
EXTENDS Integers, Sequences, FiniteSets, TLC

\* Bounds of the model: lines in the file, characters in one sentence.
MaxLines == 5
MaxSentLen == 4

\* The characters and the tag alphabet the record lines are drawn from.
Chars == {"a", "b"}
\* A fixed text: under SpecText the k-th record line of a sentence carries Text[k].
Text == <<"a", "b", "c", "d", "e", "f">>
Tags == {"0", "1", "2"}
Whitespace == {" ", "\t"}

VARIABLES
  pc,                    \* position in do_evaluation / main, or the exception raised
  tp, fp,                \* lines 276-277
  expected_token_count,  \* line 278
  actual_token_count,    \* line 279
  expect_words,          \* line 280
  actual_words,          \* line 281
  expect_word_frag,      \* line 282
  actual_word_frag,      \* line 283
  sentence_count,        \* line 284
  exs, acs,              \* lines 301-302
  stderr,                \* number of messages written by line 298
  report,                \* what line 387 prints: <<precision, recall>> as fractions
  nread,                 \* number of lines of the file consumed by line 286
  sentence,              \* history: the characters of the sentence being read or aligned
  expect_before,         \* history: expect_words as flushed, before the loop consumes it
  actual_before,         \* history: actual_words as flushed, before the loop consumes it
  counters_before,       \* history: <<tp, fp, actual_token_count, expected_token_count>>
                         \*          when the last line was read
  tags_agree             \* history: every record line read so far had equal tags

vars == <<pc, tp, fp, expected_token_count, actual_token_count, expect_words,
          actual_words, expect_word_frag, actual_word_frag, sentence_count,
          exs, acs, stderr, report, nread, sentence, expect_before,
          actual_before, counters_before, tags_agree>>

counters == <<tp, fp, actual_token_count, expected_token_count>>

----------------------------------------------------------------------------
\* Input lines

RecordLine(c, e, a) == <<c, "\t", e, "\t", a>>

RecordLines == {RecordLine(c, e, a) : c \in Chars, e \in Tags, a \in Tags}

\* Lines that are not "one character, two tags of the alphabet".
OddLines ==
  { <<>>,                                      \* the empty line
    <<" ">>, <<"\t">>, <<" ", "\t">>,          \* whitespace only
    <<"a">>,                                   \* one field
    <<"a", "\t", "0">>,                        \* two fields
    <<"a", "\t", "0", "\t">>,                  \* three fields, the last one empty
    <<"a", "\t", "0", "\t", "2", "\t">>,       \* four fields, the last one empty
    <<"a", "\t", "0", "\t", "0", "\t", "1">>,  \* four fields
    <<"b", "\t", "1", "\t", "0", " ">>,        \* trailing blank after the tag
    <<" ", "\t", "0", "\t", "0">>,             \* the character is a blank
    <<" ", "b", "\t", "1", "\t", "1">>,        \* leading blank
    <<"a", "\t", "\t", "0">>,                  \* empty expected tag
    <<"a", "b", "\t", "0", "\t", "1">> }       \* a two-character token

InputLines == RecordLines \cup OddLines

----------------------------------------------------------------------------
\* str.strip(), str.split(sep)

RECURSIVE LStrip(_)
LStrip(s) ==
  IF s = <<>> THEN s
  ELSE IF Head(s) \in Whitespace THEN LStrip(Tail(s)) ELSE s

RECURSIVE RStrip(_)
RStrip(s) ==
  IF s = <<>> THEN s
  ELSE IF s[Len(s)] \in Whitespace THEN RStrip(SubSeq(s, 1, Len(s) - 1)) ELSE s

strip(s) == RStrip(LStrip(s))

RECURSIVE split(_, _)
split(s, sep) ==
  IF s = <<>> THEN << <<>> >>
  ELSE IF Head(s) = sep THEN << <<>> >> \o split(Tail(s), sep)
  ELSE LET r == split(Tail(s), sep)
       IN  << <<Head(s)>> \o Head(r) >> \o Tail(r)

\* ''.join(words)
RECURSIVE Join(_)
Join(words) == IF words = <<>> THEN <<>> ELSE Head(words) \o Join(Tail(words))

----------------------------------------------------------------------------
\* The evaluator's state as one record, and the steps of do_evaluation on it

State ==
  [pc |-> pc, tp |-> tp, fp |-> fp,
   expected_token_count |-> expected_token_count,
   actual_token_count |-> actual_token_count,
   expect_words |-> expect_words, actual_words |-> actual_words,
   expect_word_frag |-> expect_word_frag, actual_word_frag |-> actual_word_frag,
   sentence_count |-> sentence_count, exs |-> exs, acs |-> acs,
   stderr |-> stderr]

Becomes(s) ==
  /\ pc' = s.pc
  /\ tp' = s.tp
  /\ fp' = s.fp
  /\ expected_token_count' = s.expected_token_count
  /\ actual_token_count' = s.actual_token_count
  /\ expect_words' = s.expect_words
  /\ actual_words' = s.actual_words
  /\ expect_word_frag' = s.expect_word_frag
  /\ actual_word_frag' = s.actual_word_frag
  /\ sentence_count' = s.sentence_count
  /\ exs' = s.exs
  /\ acs' = s.acs
  /\ stderr' = s.stderr

\* Mutant: only the tag '0' starts a fragment.
IsBoundaryStart_OnlyZero(tag) == tag = <<"0">>

\* expect_tag == '0' or expect_tag == '2'
IsBoundaryStart(tag) == tag = <<"0">> \/ tag = <<"2">>

\* Mutant: a boundary-start character overwrites the pending fragment without
\* appending it to the word list first.
AssembleFragment_DropsPending(words, frag, char, tag) ==
  IF IsBoundaryStart(tag)
  THEN [words |-> words, frag |-> char]
  ELSE [words |-> words, frag |-> frag \o char]

\* Lines 324-329 (and 331-336): one character appended to one stream.
AssembleFragment(words, frag, char, tag) ==
  IF IsBoundaryStart(tag)
  THEN [words |-> IF Len(frag) > 0 THEN Append(words, frag) ELSE words,
        frag  |-> char]
  ELSE [words |-> words, frag |-> frag \o char]

\* Lines 286 and 324-336 for one stream: the word list and pending fragment after
\* the first n characters of Text have been read with the tags given.
RECURSIVE Assembled(_, _)
Assembled(n, tags) ==
  IF n = 0 THEN [words |-> <<>>, frag |-> <<>>]
  ELSE LET r == Assembled(n - 1, tags)
       IN  AssembleFragment(r.words, r.frag, <<Text[n]>>, <<tags[n]>>)

\* Mutant: extra fields are ignored instead of failing the unpacking.
Unpack_IgnoresExtraFields(fields) ==
  IF Len(fields) >= 3
  THEN [ok |-> TRUE, char |-> fields[1], expect_tag |-> fields[2],
        actual_tag |-> fields[3]]
  ELSE [ok |-> FALSE, char |-> <<>>, expect_tag |-> <<>>, actual_tag |-> <<>>]

\* char, expect_tag, actual_tag = line.split('\t')
Unpack(fields) ==
  IF Len(fields) = 3
  THEN [ok |-> TRUE, char |-> fields[1], expect_tag |-> fields[2],
        actual_tag |-> fields[3]]
  ELSE [ok |-> FALSE, char |-> <<>>, expect_tag |-> <<>>, actual_tag |-> <<>>]

\* Lines 323-336: the else branch, on the stripped line.
CharLineStep(s, line) ==
  LET u == Unpack(split(line, "\t"))
      e == AssembleFragment(s.expect_words, s.expect_word_frag, u.char, u.expect_tag)
      a == AssembleFragment(s.actual_words, s.actual_word_frag, u.char, u.actual_tag)
  IN  IF ~u.ok THEN [s EXCEPT !.pc = "ValueError"]
      ELSE [s EXCEPT !.expect_words = e.words, !.expect_word_frag = e.frag,
                     !.actual_words = a.words, !.actual_word_frag = a.frag]

\* Lines 291-293 (and 294-296): the pending fragment of one stream is appended.
FlushFragment(words, frag) == IF Len(frag) > 0 THEN Append(words, frag) ELSE words

\* Mutant: the pending actual fragment is cleared without being appended.
FlushStep_SkipsActual(s) ==
  [s EXCEPT !.sentence_count = s.sentence_count + 1,
            !.expect_words = FlushFragment(s.expect_words, s.expect_word_frag),
            !.expect_word_frag = <<>>,
            !.actual_word_frag = <<>>,
            !.pc = "flushed"]

\* Mutant: the pending expected fragment is appended but not cleared.
FlushStep_KeepsFragment(s) ==
  [s EXCEPT !.sentence_count = s.sentence_count + 1,
            !.expect_words = FlushFragment(s.expect_words, s.expect_word_frag),
            !.actual_words = FlushFragment(s.actual_words, s.actual_word_frag),
            !.actual_word_frag = <<>>,
            !.pc = "flushed"]

\* Lines 290-296.
FlushStep(s) ==
  [s EXCEPT !.sentence_count = s.sentence_count + 1,
            !.expect_words = FlushFragment(s.expect_words, s.expect_word_frag),
            !.expect_word_frag = <<>>,
            !.actual_words = FlushFragment(s.actual_words, s.actual_word_frag),
            !.actual_word_frag = <<>>,
            !.pc = "flushed"]

\* Mutant: an empty sentence is counted as one token on each side.
CountStep_CountsEmptySentence(s) ==
  LET ne == IF Len(s.expect_words) = 0 THEN 1 ELSE Len(s.expect_words)
      na == IF Len(s.actual_words) = 0 THEN 1 ELSE Len(s.actual_words)
  IN  [s EXCEPT !.stderr = IF Len(s.expect_words) = 0 THEN s.stderr + 1 ELSE s.stderr,
                !.expected_token_count = s.expected_token_count + ne,
                !.actual_token_count = s.actual_token_count + na,
                !.exs = <<>>,
                !.acs = <<>>,
                !.pc = "outer"]

\* Mutant: the token counts grow by one per sentence, not by the number of words.
CountStep_CountsSentences(s) ==
  [s EXCEPT !.stderr = IF Len(s.expect_words) = 0 THEN s.stderr + 1 ELSE s.stderr,
            !.expected_token_count = s.expected_token_count + 1,
            !.actual_token_count = s.actual_token_count + 1,
            !.exs = <<>>,
            !.acs = <<>>,
            !.pc = "outer"]

\* Mutant: each total is increased by the length of the other stream's queue.
CountStep_SwapsStreams(s) ==
  [s EXCEPT !.stderr = IF Len(s.expect_words) = 0 THEN s.stderr + 1 ELSE s.stderr,
            !.expected_token_count = s.expected_token_count + Len(s.actual_words),
            !.actual_token_count = s.actual_token_count + Len(s.expect_words),
            !.exs = <<>>,
            !.acs = <<>>,
            !.pc = "outer"]

\* Lines 297-302.
CountStep(s) ==
  [s EXCEPT !.stderr = IF Len(s.expect_words) = 0 THEN s.stderr + 1 ELSE s.stderr,
            !.expected_token_count = s.expected_token_count + Len(s.expect_words),
            !.actual_token_count = s.actual_token_count + Len(s.actual_words),
            !.exs = <<>>,
            !.acs = <<>>,
            !.pc = "outer"]

\* Mutant: the match step does not append the expected word to exs.
OuterStep_ForgetsExs(s) ==
  IF ~(Len(s.expect_words) > 0) THEN [s EXCEPT !.pc = "assert"]
  ELSE IF Len(s.exs) = Len(s.acs)
  THEN IF s.actual_words = <<>> THEN [s EXCEPT !.pc = "IndexError"]
       ELSE LET aw == Head(s.actual_words)
                ew == Head(s.expect_words)
            IN  [s EXCEPT !.actual_words = Tail(s.actual_words),
                          !.expect_words = Tail(s.expect_words),
                          !.acs = s.acs \o aw,
                          !.tp = IF aw = ew THEN s.tp + 1 ELSE s.tp,
                          !.fp = IF aw = ew THEN s.fp ELSE s.fp + 1,
                          !.pc = "inner"]
  ELSE [s EXCEPT !.pc = "inner"]

\* Mutant: a mismatch in the match step is not charged.
OuterStep_IgnoresMismatch(s) ==
  IF ~(Len(s.expect_words) > 0) THEN [s EXCEPT !.pc = "assert"]
  ELSE IF Len(s.exs) = Len(s.acs)
  THEN IF s.actual_words = <<>> THEN [s EXCEPT !.pc = "IndexError"]
       ELSE LET aw == Head(s.actual_words)
                ew == Head(s.expect_words)
            IN  [s EXCEPT !.actual_words = Tail(s.actual_words),
                          !.expect_words = Tail(s.expect_words),
                          !.acs = s.acs \o aw,
                          !.exs = s.exs \o ew,
                          !.tp = IF aw = ew THEN s.tp + 1 ELSE s.tp,
                          !.pc = "inner"]
  ELSE [s EXCEPT !.pc = "inner"]

\* Mutant: the match step counts a true positive whatever it pops.
OuterStep_AlwaysMatches(s) ==
  IF ~(Len(s.expect_words) > 0) THEN [s EXCEPT !.pc = "assert"]
  ELSE IF Len(s.exs) = Len(s.acs)
  THEN IF s.actual_words = <<>> THEN [s EXCEPT !.pc = "IndexError"]
       ELSE LET aw == Head(s.actual_words)
                ew == Head(s.expect_words)
            IN  [s EXCEPT !.actual_words = Tail(s.actual_words),
                          !.expect_words = Tail(s.expect_words),
                          !.acs = s.acs \o aw,
                          !.exs = s.exs \o ew,
                          !.tp = s.tp + 1,
                          !.pc = "inner"]
  ELSE [s EXCEPT !.pc = "inner"]

\* Mutant: a mismatch in the match step is charged once per popped fragment.
OuterStep_ChargesBoth(s) ==
  IF ~(Len(s.expect_words) > 0) THEN [s EXCEPT !.pc = "assert"]
  ELSE IF Len(s.exs) = Len(s.acs)
  THEN IF s.actual_words = <<>> THEN [s EXCEPT !.pc = "IndexError"]
       ELSE LET aw == Head(s.actual_words)
                ew == Head(s.expect_words)
            IN  [s EXCEPT !.actual_words = Tail(s.actual_words),
                          !.expect_words = Tail(s.expect_words),
                          !.acs = s.acs \o aw,
                          !.exs = s.exs \o ew,
                          !.tp = IF aw = ew THEN s.tp + 1 ELSE s.tp,
                          !.fp = IF aw = ew THEN s.fp ELSE s.fp + 2,
                          !.pc = "inner"]
  ELSE [s EXCEPT !.pc = "inner"]

\* Lines 303-312: the test of the outer while and the match step.
OuterStep(s) ==
  IF ~(Len(s.expect_words) > 0) THEN [s EXCEPT !.pc = "assert"]
  ELSE IF Len(s.exs) = Len(s.acs)
  THEN IF s.actual_words = <<>> THEN [s EXCEPT !.pc = "IndexError"]
       ELSE LET aw == Head(s.actual_words)
                ew == Head(s.expect_words)
            IN  [s EXCEPT !.actual_words = Tail(s.actual_words),
                          !.expect_words = Tail(s.expect_words),
                          !.acs = s.acs \o aw,
                          !.exs = s.exs \o ew,
                          !.tp = IF aw = ew THEN s.tp + 1 ELSE s.tp,
                          !.fp = IF aw = ew THEN s.fp ELSE s.fp + 1,
                          !.pc = "inner"]
  ELSE [s EXCEPT !.pc = "inner"]

\* Mutant: a resynchronisation pop is never charged.
InnerStep_NeverCharges(s) ==
  IF Len(s.exs) # Len(s.acs)
  THEN IF Len(s.exs) > Len(s.acs)
       THEN IF s.actual_words = <<>> THEN [s EXCEPT !.pc = "IndexError"]
            ELSE [s EXCEPT !.actual_words = Tail(s.actual_words),
                           !.acs = s.acs \o Head(s.actual_words)]
       ELSE IF s.expect_words = <<>> THEN [s EXCEPT !.pc = "IndexError"]
            ELSE [s EXCEPT !.expect_words = Tail(s.expect_words),
                           !.exs = s.exs \o Head(s.expect_words)]
  ELSE [s EXCEPT !.pc = "outer"]

\* Mutant: every resynchronisation pop is charged, from either queue.
InnerStep_ChargesEveryPop(s) ==
  IF Len(s.exs) # Len(s.acs)
  THEN IF Len(s.exs) > Len(s.acs)
       THEN IF s.actual_words = <<>> THEN [s EXCEPT !.pc = "IndexError"]
            ELSE [s EXCEPT !.actual_words = Tail(s.actual_words),
                           !.acs = s.acs \o Head(s.actual_words),
                           !.fp = s.fp + 1]
       ELSE IF s.expect_words = <<>> THEN [s EXCEPT !.pc = "IndexError"]
            ELSE [s EXCEPT !.expect_words = Tail(s.expect_words),
                           !.exs = s.exs \o Head(s.expect_words),
                           !.fp = s.fp + 1]
  ELSE [s EXCEPT !.pc = "outer"]

\* Mutant: the resynchronisation pops from the queue whose accumulator is the longer.
InnerStep_PopsLonger(s) ==
  IF Len(s.exs) # Len(s.acs)
  THEN IF Len(s.exs) < Len(s.acs)
       THEN IF s.actual_words = <<>> THEN [s EXCEPT !.pc = "IndexError"]
            ELSE [s EXCEPT !.actual_words = Tail(s.actual_words),
                           !.acs = s.acs \o Head(s.actual_words),
                           !.fp = s.fp + 1]
       ELSE IF s.expect_words = <<>> THEN [s EXCEPT !.pc = "IndexError"]
            ELSE [s EXCEPT !.expect_words = Tail(s.expect_words),
                           !.exs = s.exs \o Head(s.expect_words)]
  ELSE [s EXCEPT !.pc = "outer"]

\* Lines 313-320: the test of the inner while and one resynchronisation pop.
InnerStep(s) ==
  IF Len(s.exs) # Len(s.acs)
  THEN IF Len(s.exs) > Len(s.acs)
       THEN IF s.actual_words = <<>> THEN [s EXCEPT !.pc = "IndexError"]
            ELSE [s EXCEPT !.actual_words = Tail(s.actual_words),
                           !.acs = s.acs \o Head(s.actual_words),
                           !.fp = s.fp + 1]
       ELSE IF s.expect_words = <<>> THEN [s EXCEPT !.pc = "IndexError"]
            ELSE [s EXCEPT !.expect_words = Tail(s.expect_words),
                           !.exs = s.exs \o Head(s.expect_words)]
  ELSE [s EXCEPT !.pc = "outer"]

\* Line 321.
AssertStep(s) ==
  IF Len(s.expect_words) = Len(s.actual_words) /\ Len(s.actual_words) = 0
  THEN [s EXCEPT !.pc = "read"]
  ELSE [s EXCEPT !.pc = "AssertionError"]

\* Lines 289-321: the whole handling of a blank line, run to its end.
RECURSIVE RunSentence(_)
RunSentence(s) ==
  CASE s.pc = "flushed" -> RunSentence(CountStep(s))
    [] s.pc = "outer"   -> RunSentence(OuterStep(s))
    [] s.pc = "inner"   -> RunSentence(InnerStep(s))
    [] s.pc = "assert"  -> AssertStep(s)
    [] OTHER            -> s

BlankLine(s) == RunSentence(FlushStep(s))

\* Lines 276-284: the evaluator's state before the first line is read.
InitState ==
  [pc |-> "read", tp |-> 0, fp |-> 0,
   expected_token_count |-> 0, actual_token_count |-> 0,
   expect_words |-> <<>>, actual_words |-> <<>>,
   expect_word_frag |-> <<>>, actual_word_frag |-> <<>>,
   sentence_count |-> 0, exs |-> <<>>, acs |-> <<>>, stderr |-> 0]

\* The positions of a sentence's characters at which a word of the list starts.
StartOffsets(words) ==
  {Len(Join(SubSeq(words, 1, i - 1))) + 1 : i \in 1..Len(words)}

\* The lines of an evaluation file holding one sentence alone, segmented as ew by
\* the expected tags and as aw by the actual tags, without its blank line.
SentenceLines(ew, aw) ==
  [k \in 1..Len(Join(ew)) |->
     RecordLine(Join(ew)[k],
                IF k \in StartOffsets(ew) THEN "0" ELSE "1",
                IF k \in StartOffsets(aw) THEN "0" ELSE "1")]

\* Lines 286-288, 322-336: the for loop over a sequence of record lines.
RECURSIVE ReadLines(_, _)
ReadLines(s, lines) ==
  IF lines = <<>> THEN s
  ELSE ReadLines(CharLineStep(s, strip(Head(lines))), Tail(lines))

\* Lines 276-337: the counters returned for the file of one sentence alone.
EvaluateAlone(ew, aw) ==
  LET r == BlankLine(ReadLines(InitState, SentenceLines(ew, aw)))
  IN  <<r.tp, r.fp, r.actual_token_count, r.expected_token_count>>

\* Line 387: (tp + 0.0)/actual_token_count, (tp + 0.0)/expected_token_count.
Metrics(s) ==
  IF s.actual_token_count = 0 \/ s.expected_token_count = 0
  THEN [pc |-> "ZeroDivisionError", report |-> <<>>]
  ELSE [pc |-> "printed",
        report |-> << <<s.tp, s.actual_token_count>>,
                      <<s.tp, s.expected_token_count>> >>]

----------------------------------------------------------------------------
\* Length of the sentence read so far.
PendingLen == Len(Join(expect_words)) + Len(expect_word_frag)

\* The raw line is a record of the alphabet whose two tags are the same.
TagsAgree(l) == \E c \in Chars, t \in Tags : l = RecordLine(c, t, t)

Init ==
  /\ pc = "read"
  /\ tp = 0 /\ fp = 0
  /\ expected_token_count = 0 /\ actual_token_count = 0
  /\ expect_words = <<>> /\ actual_words = <<>>
  /\ expect_word_frag = <<>> /\ actual_word_frag = <<>>
  /\ sentence_count = 0
  /\ exs = <<>> /\ acs = <<>>
  /\ stderr = 0
  /\ report = <<>>
  /\ nread = 0
  /\ sentence = <<>>
  /\ expect_before = <<>> /\ actual_before = <<>>
  /\ counters_before = <<0, 0, 0, 0>>
  /\ tags_agree = TRUE

\* Lines 286-296: a line that strips to nothing ends the sentence.
ReadBlankLine(l) ==
  /\ pc = "read"
  /\ nread < MaxLines
  /\ Len(strip(l)) = 0
  /\ Becomes(FlushStep(State))
  /\ nread' = nread + 1
  /\ sentence' = IF expect_word_frag = <<>> THEN <<>> ELSE sentence
  /\ expect_before' = FlushStep(State).expect_words
  /\ actual_before' = FlushStep(State).actual_words
  /\ counters_before' = counters
  /\ UNCHANGED <<report, tags_agree>>

\* Lines 286-288, 322-336: any other line is unpacked as a record.
ReadCharLine(l) ==
  /\ pc = "read"
  /\ nread < MaxLines
  /\ PendingLen < MaxSentLen
  /\ Len(strip(l)) # 0
  /\ Becomes(CharLineStep(State, strip(l)))
  /\ nread' = nread + 1
  /\ sentence' = IF CharLineStep(State, strip(l)).pc = "ValueError" THEN sentence
                 ELSE (IF expect_word_frag = <<>> THEN <<>> ELSE sentence)
                      \o Unpack(split(strip(l), "\t")).char
  /\ expect_before' = <<>>
  /\ actual_before' = <<>>
  /\ counters_before' = counters
  /\ tags_agree' = (tags_agree /\ TagsAgree(l))
  /\ UNCHANGED report

\* Lines 297-302.
CountTokens ==
  /\ pc = "flushed"
  /\ Becomes(CountStep(State))
  /\ UNCHANGED <<report, nread, sentence, expect_before, actual_before,
                 counters_before, tags_agree>>

\* Lines 303-312.
OuterLoop ==
  /\ pc = "outer"
  /\ Becomes(OuterStep(State))
  /\ UNCHANGED <<report, nread, sentence, expect_before, actual_before,
                 counters_before, tags_agree>>

\* Lines 313-320.
InnerLoop ==
  /\ pc = "inner"
  /\ Becomes(InnerStep(State))
  /\ UNCHANGED <<report, nread, sentence, expect_before, actual_before,
                 counters_before, tags_agree>>

\* Line 321.
AssertDrained ==
  /\ pc = "assert"
  /\ Becomes(AssertStep(State))
  /\ UNCHANGED <<report, nread, sentence, expect_before, actual_before,
                 counters_before, tags_agree>>

\* Line 337: the file is exhausted.
EndOfInput ==
  /\ pc = "read"
  /\ Becomes([State EXCEPT !.pc = "returned"])
  /\ UNCHANGED <<report, nread, sentence, expect_before, actual_before,
                 counters_before, tags_agree>>

\* Lines 386-387.
Main ==
  /\ pc = "returned"
  /\ Becomes([State EXCEPT !.pc = Metrics(State).pc])
  /\ report' = Metrics(State).report
  /\ UNCHANGED <<nread, sentence, expect_before, actual_before,
                 counters_before, tags_agree>>

Next ==
  \/ \E l \in InputLines : ReadBlankLine(l)
  \/ \E l \in InputLines : ReadCharLine(l)
  \/ CountTokens
  \/ OuterLoop
  \/ InnerLoop
  \/ AssertDrained
  \/ EndOfInput
  \/ Main

Spec == Init /\ [][Next]_vars

\* The interpreter runs the handler of a blank line to its end: once the line is
\* read, the counting statements, each test and body of the two while loops and
\* the assert are executed one after the other without being suspended.  What
\* the input holds next, and whether it ends, is not up to the program.
SpecFair ==
  /\ Spec
  /\ WF_vars(CountTokens)
  /\ WF_vars(OuterLoop)
  /\ WF_vars(InnerLoop)
  /\ WF_vars(AssertDrained)

\* The same program reading a tagging of the fixed text: the characters are those
\* of Text in order, the tags are free, sentences end with the empty line.
ReadTextLine ==
  /\ PendingLen < Len(Text)
  /\ \E e \in Tags, a \in Tags : ReadCharLine(RecordLine(Text[PendingLen + 1], e, a))

ReadEmptyLine == ReadBlankLine(<<>>)

NextText ==
  \/ ReadEmptyLine
  \/ ReadTextLine
  \/ CountTokens
  \/ OuterLoop
  \/ InnerLoop
  \/ AssertDrained
  \/ EndOfInput
  \/ Main

SpecText == Init /\ [][NextText]_vars

----------------------------------------------------------------------------
\* Vocabulary of the properties

Errors == {"ValueError", "IndexError", "AssertionError", "ZeroDivisionError"}

AllNonEmpty(words) == \A i \in 1..Len(words) : Len(words[i]) > 0

\* The last sentence of the file was terminated by a blank line.
Terminated == expect_word_frag = <<>> /\ actual_word_frag = <<>>

\* At least one blank line closed a sentence that had characters.
SomeSentenceHadChars == sentence_count > stderr

\* l without its leading and trailing whitespace, by positions.
Trimmed(l) ==
  LET idx == {i \in 1..Len(l) : l[i] \notin Whitespace}
  IN  IF idx = {} THEN <<>>
      ELSE SubSeq(l, CHOOSE i \in idx : \A j \in idx : i <= j,
                     CHOOSE i \in idx : \A j \in idx : j <= i)

\* Number of tab-separated fields of l.
FieldCount(l) == Cardinality({i \in 1..Len(l) : l[i] = "\t"}) + 1

\* The input lines by what is left of them once surrounding whitespace is removed:
\* nothing; something that has not exactly three fields; exactly three fields.
StripsToEmpty == {l \in InputLines : Trimmed(l) = <<>>}

MalformedStripped ==
  {l \in InputLines : Trimmed(l) # <<>> /\ FieldCount(Trimmed(l)) # 3}

ThreeFieldsStripped ==
  {l \in InputLines : Trimmed(l) # <<>> /\ FieldCount(Trimmed(l)) = 3}

\* The step consumes line l of the file.
ReadLine(l) == ReadBlankLine(l) \/ ReadCharLine(l)

\* The blank line being handled closes a sentence without characters.
InEmptySentence ==
  /\ pc \in {"flushed", "outer", "inner", "assert"}
  /\ expect_words = <<>> /\ actual_words = <<>>
  /\ (pc # "flushed" => exs = <<>> /\ acs = <<>>)

\* The alignment loop is about to pop a queue that is empty.
PopFromEmptyQueue ==
  \/ pc = "outer" /\ Len(expect_words) > 0 /\ Len(exs) = Len(acs) /\ actual_words = <<>>
  \/ pc = "inner" /\ Len(exs) > Len(acs) /\ actual_words = <<>>
  \/ pc = "inner" /\ Len(exs) < Len(acs) /\ expect_words = <<>>

\* The inner while is about to run its body.
ResyncPending == pc = "inner" /\ Len(exs) # Len(acs)

\* The body of the inner while pops one fragment from the queue whose
\* accumulator is the shorter one, and appends it to that accumulator.
OnePopFromShorter ==
  IF Len(exs) > Len(acs)
  THEN /\ actual_words # <<>>
       /\ actual_words' = Tail(actual_words)
       /\ acs' = acs \o Head(actual_words)
       /\ UNCHANGED <<expect_words, exs>>
  ELSE /\ expect_words # <<>>
       /\ expect_words' = Tail(expect_words)
       /\ exs' = exs \o Head(expect_words)
       /\ UNCHANGED <<actual_words, acs>>

----------------------------------------------------------------------------
\* C1 - Reconstruction invariant: when a blank line has been read and the
\* pending fragments flushed, the words of each stream, concatenated in order,
\* are exactly the characters of the sentence, and no word is empty.
C1_Reconstruction ==
  pc = "flushed" =>
    /\ Join(expect_words) = sentence
    /\ Join(actual_words) = sentence
    /\ AllNonEmpty(expect_words)
    /\ AllNonEmpty(actual_words)

C1_Witness ==
  /\ pc = "flushed"
  /\ Len(sentence) = 4
  /\ Len(expect_words) = 2
  /\ Len(actual_words) = 3

\* C2 - Perfect match: while every record line read has its expected tag equal
\* to its actual tag, no false positive is counted and the resynchronisation
\* loop never finds the accumulators unequal (so it never pops); when the file
\* ends after a blank line, tp = actual_token_count = expected_token_count, and
\* if some sentence had characters main prints precision = recall = 1.
C2_PerfectMatch ==
  tags_agree =>
    /\ fp = 0
    /\ (pc = "inner" => Len(exs) = Len(acs))
    /\ (pc = "returned" /\ Terminated =>
          tp = actual_token_count /\ tp = expected_token_count)
    /\ (pc \in {"printed", "ZeroDivisionError"} /\ Terminated /\ SomeSentenceHadChars =>
          /\ pc = "printed"
          /\ tp > 0
          /\ report = << <<tp, tp>>, <<tp, tp>> >>)

C2_Witness ==
  /\ tags_agree
  /\ pc = "printed"
  /\ Terminated
  /\ sentence_count = 2
  /\ tp = 3

\* C3 - Total mismatch: the file is the one sentence "abcd" with expected words
\* ab, cd and actual words a, bcd; do_evaluation returns tp = 0, fp = 2,
\* expected_token_count = 2, actual_token_count = 2.
C3_Scenario ==
  /\ sentence_count = 1
  /\ nread = 5
  /\ Terminated
  /\ expect_before = << <<"a", "b">>, <<"c", "d">> >>
  /\ actual_before = << <<"a">>, <<"b", "c", "d">> >>

C3_TotalMismatch ==
  (pc = "returned" /\ C3_Scenario) =>
    /\ tp = 0
    /\ fp = 2
    /\ expected_token_count = 2
    /\ actual_token_count = 2

C3_Witness == pc = "returned" /\ C3_Scenario

\* C4 - Flush on end of input: what do_evaluation returns is what it would
\* return had a blank line followed the last line of the file.
C4_FlushOnEndOfInput ==
  pc = "returned" =>
    LET s == BlankLine(State)
    IN  <<s.tp, s.fp, s.actual_token_count, s.expected_token_count>> = counters

\* C5 - Zero denominator: when actual_token_count or expected_token_count is
\* zero, main ends having printed a report, not in a division error.
C5_ZeroDenominatorReported ==
  (pc \in {"printed", "ZeroDivisionError"}
     /\ (actual_token_count = 0 \/ expected_token_count = 0))
  => pc = "printed"

\* C6 - Queues drain in lockstep: the alignment loop never pops an empty
\* queue, no IndexError or AssertionError is raised, and when the loop exits
\* (expect_words empty) actual_words is empty too.
C6_QueuesDrainInLockstep ==
  /\ ~PopFromEmptyQueue
  /\ pc \notin {"IndexError", "AssertionError"}
  /\ (pc = "assert" => expect_words = <<>> /\ actual_words = <<>>)

C6_Witness ==
  /\ pc = "assert"
  /\ Len(sentence) = 4
  /\ Len(expect_before) = 3
  /\ Len(actual_before) = 2
  /\ actual_words = <<>>

\* C7 as stated - Malformed line is fatal: every line of one or more characters
\* that does not consist of exactly three tab-separated fields raises ValueError.
C7_MalformedLineFatal ==
  [][\A l \in InputLines :
       (ReadLine(l) /\ Len(l) > 0 /\ FieldCount(l) # 3) => pc' = "ValueError"]_vars

\* C7 as amended - the fields are counted after strip(): a line whose stripped
\* form is non-empty and has not exactly three tab-separated fields raises
\* ValueError and leaves the counters alone; a line ends the sentence only if
\* its stripped form is empty, and is taken as a record only if its stripped
\* form has exactly three fields.
C7_MalformedStrippedLineFatal ==
  [][pc = "read" /\ nread' # nread =>
       /\ \A l \in MalformedStripped :
            ReadLine(l) => (pc' = "ValueError" /\ counters' = counters)
       /\ pc' = "flushed" => \A l \in InputLines \ StripsToEmpty : ~ReadLine(l)
       /\ pc' = "read" => \A l \in StripsToEmpty : ~ReadLine(l)
       /\ pc' \in {"flushed", "read", "ValueError"}]_vars

C7_Witness ==
  /\ pc = "ValueError"
  /\ nread = 3
  /\ sentence_count = 1
  /\ expect_word_frag # <<>>

\* C8 - Empty sentence: a blank line read when no record line was read since
\* the previous blank line (or the start) is handled without changing tp, fp,
\* actual_token_count, expected_token_count; one message is written to stderr,
\* no exception is raised, and the loop over the lines resumes with empty word
\* lists and fragments.
C8_EmptySentenceNoOp ==
  [][/\ (pc = "read" /\ pc' = "flushed" /\ PendingLen = 0 /\ actual_word_frag = <<>>)
          => (InEmptySentence' /\ counters' = counters)
     /\ InEmptySentence =>
          /\ counters' = counters
          /\ pc' = (CASE pc = "flushed" -> "outer"
                      [] pc = "outer"   -> "assert"
                      [] pc = "assert"  -> "read"
                      [] OTHER          -> "none")
          /\ stderr' = (IF pc = "flushed" THEN stderr + 1 ELSE stderr)
          /\ (pc' = "read" =>
                /\ expect_words' = <<>> /\ actual_words' = <<>>
                /\ expect_word_frag' = <<>> /\ actual_word_frag' = <<>>)]_vars

C8_Witness ==
  /\ pc = "read"
  /\ sentence_count = 2
  /\ stderr = 1
  /\ sentence = <<>>
  /\ expect_before = <<>>
  /\ tp = 1
  /\ fp = 1

\* C9 - Metrics lie in [0, 1]: 0 <= tp <= actual_token_count and
\* 0 <= tp <= expected_token_count, and the fractions main prints have a
\* positive denominator and a numerator between 0 and the denominator.
C9_MetricsInUnitInterval ==
  /\ 0 <= tp
  /\ tp <= actual_token_count
  /\ tp <= expected_token_count
  /\ (pc = "printed" =>
        /\ report = << <<tp, actual_token_count>>, <<tp, expected_token_count>> >>
        /\ \A i \in 1..2 : 0 <= report[i][1] /\ report[i][1] <= report[i][2]
                           /\ 0 < report[i][2])

C9_Witness ==
  /\ pc = "printed"
  /\ 0 < tp
  /\ tp < actual_token_count
  /\ actual_token_count < expected_token_count

\* C10 as stated - every iteration of the resynchronisation loop pops one
\* fragment from the queue whose accumulator is shorter and increments fp.
C10_ResyncChargesEveryPop ==
  [][ResyncPending => (OnePopFromShorter /\ fp' = fp + 1)]_vars

\* C10 as amended - every iteration of the resynchronisation loop pops one
\* fragment from the queue whose accumulator is shorter; a pop from
\* actual_words increments fp by one, a pop from expect_words leaves fp
\* unchanged; tp is unchanged by either.
C10_ResyncChargesActualPops ==
  [][ResyncPending =>
       /\ OnePopFromShorter
       /\ fp' = (IF Len(exs) > Len(acs) THEN fp + 1 ELSE fp)
       /\ tp' = tp
       /\ pc' = "inner"]_vars

C10_Witness ==
  /\ pc = "assert"
  /\ sentence_count = 1
  /\ Len(expect_before) = 3
  /\ Len(actual_before) = 1
  /\ fp = 1
  /\ tp = 0

----------------------------------------------------------------------------
\* Vocabulary of the properties about one sentence's alignment

\* The alignment loop of the current sentence is running or has just exited.
Aligning == pc \in {"outer", "inner", "assert"}

\* Fragments popped so far from each queue, and classifications made so far,
\* in the alignment of the current sentence.
PoppedExpect == Len(expect_before) - Len(expect_words)
PoppedActual == Len(actual_before) - Len(actual_words)
Classified == (tp + fp) - (counters_before[1] + counters_before[2])

\* C11 as stated - Conservation: after the alignment of a sentence the tp and fp
\* increments of that sentence add up to the number of fragments popped from
\* both queues.
C11_ConservationBothQueues ==
  pc = "assert" => Classified = PoppedExpect + PoppedActual

\* C11 as amended - at every point of the alignment of a sentence the tp and fp
\* increments of that sentence add up to the number of fragments popped from
\* actual_words (neither counter ever decreasing), so that after the alignment
\* they add up to the number of actual fragments of the sentence: each popped
\* actual fragment is classified exactly once, and the fragments popped from
\* expect_words add nothing of their own.
C11_ConservationActualQueue ==
  Aligning =>
    /\ Classified = PoppedActual
    /\ tp >= counters_before[1]
    /\ fp >= counters_before[2]
    /\ (pc = "assert" => Classified = Len(actual_before)
                         /\ PoppedExpect = Len(expect_before))

C11_Witness ==
  /\ pc = "assert"
  /\ sentence_count = 2
  /\ counters_before[1] + counters_before[2] = 1
  /\ Len(expect_before) = 2
  /\ Len(actual_before) = 1
  /\ Classified = 1

\* C12 - The alignment terminates by convergence: neither accumulator grows
\* beyond the sentence; a resync step pops one fragment from the side whose
\* accumulator is the shorter, which strictly increases len(exs) + len(acs); a
\* pending resync leads to the outer loop with accumulators of equal length; and
\* the outer loop, once entered, leads to the assert with both queues drained.
C12_AlignmentConverges ==
  /\ [](Aligning => Len(exs) <= Len(sentence) /\ Len(acs) <= Len(sentence))
  /\ [][ResyncPending => /\ OnePopFromShorter
                         /\ pc' = "inner"
                         /\ Len(exs') + Len(acs') > Len(exs) + Len(acs)]_vars
  /\ (ResyncPending ~> (pc = "outer" /\ Len(exs) = Len(acs)))
  /\ (pc = "outer" ~> (pc = "assert" /\ expect_words = <<>> /\ actual_words = <<>>))

C12_Witness ==
  /\ pc = "assert"
  /\ Len(expect_before) = 3
  /\ Len(actual_before) = 2
  /\ Len(expect_before[1]) = 1
  /\ Len(actual_before[1]) = 2
  /\ fp = 2

\* The fragments of one stream assembled so far, the pending one included.
FragmentCount(words, frag) == Len(words) + (IF frag # <<>> THEN 1 ELSE 0)

\* The tags a specification says start a fragment.
BoundaryTags == {"0", "2"}

\* A character with tag t, read when n characters of the sentence are pending,
\* begins a new fragment: frag is then that character alone and the fragment
\* count is one more; otherwise the character joins the pending fragment.
BeginsOrJoins(n, t, c, words, frag, words2, frag2) ==
  IF n = 0 \/ t \in BoundaryTags
  THEN /\ frag2 = <<c>>
       /\ FragmentCount(words2, frag2) = FragmentCount(words, frag) + 1
  ELSE /\ frag2 = frag \o <<c>>
       /\ words2 = words

\* The fragments of n characters read with the given tags number as many as the
\* boundary-start tags, plus one when the first tag is not one of them.
CountsBoundaries(n, tags, words, frag) ==
  FragmentCount(words, frag) =
    Cardinality({i \in 1..n : tags[i] \in BoundaryTags})
      + (IF n > 0 /\ tags[1] \notin BoundaryTags THEN 1 ELSE 0)

\* C13 - Fragment boundaries follow boundary-start tags only: a character begins
\* a new fragment of a stream iff it is the first of the sentence or that
\* stream's tag is '0' or '2', whatever the other stream's tag; and whichever
\* tags produced the fragments a stream holds, the fragments number as many as
\* the boundary-start tags, plus one when the first tag is a continuation.
C13_FragmentBoundaries ==
  /\ [][\A e \in Tags, a \in Tags :
          LET c == Text[PendingLen + 1]
          IN  (pc = "read" /\ PendingLen < Len(Text) /\ ReadCharLine(RecordLine(c, e, a)))
              => /\ BeginsOrJoins(PendingLen, e, c, expect_words, expect_word_frag,
                                  expect_words', expect_word_frag')
                 /\ BeginsOrJoins(PendingLen, a, c, actual_words, actual_word_frag,
                                  actual_words', actual_word_frag')]_vars
  /\ [](pc = "read" =>
          /\ \E tags \in [1..PendingLen -> Tags] :
               Assembled(PendingLen, tags)
                 = [words |-> expect_words, frag |-> expect_word_frag]
          /\ \A tags \in [1..PendingLen -> Tags] :
               /\ Assembled(PendingLen, tags)
                    = [words |-> expect_words, frag |-> expect_word_frag]
                  => CountsBoundaries(PendingLen, tags, expect_words, expect_word_frag)
               /\ Assembled(PendingLen, tags)
                    = [words |-> actual_words, frag |-> actual_word_frag]
                  => CountsBoundaries(PendingLen, tags, actual_words, actual_word_frag))

C13_Witness ==
  /\ pc = "read"
  /\ expect_words = << <<"a", "b">> >>
  /\ expect_word_frag = <<"c">>
  /\ actual_words = << <<"a">>, <<"b">> >>
  /\ actual_word_frag = <<"c">>

\* C14 - Token totals count fragments before consumption: once the fragments of
\* a sentence are flushed the totals are still those of the sentences before;
\* from the counting statements on, through the alignment that empties the
\* queues and after it, expected_token_count and actual_token_count exceed them
\* by exactly the number of fragments assembled for the sentence in each stream.
C14_TokenTotalsBeforeConsumption ==
  /\ pc = "flushed" => /\ expected_token_count = counters_before[4]
                       /\ actual_token_count = counters_before[3]
  /\ pc # "flushed" => /\ expected_token_count = counters_before[4] + Len(expect_before)
                       /\ actual_token_count = counters_before[3] + Len(actual_before)

C14_Witness ==
  /\ pc = "assert"
  /\ expect_words = <<>>
  /\ actual_words = <<>>
  /\ counters_before[4] = 1
  /\ counters_before[3] = 1
  /\ expected_token_count = 3
  /\ actual_token_count = 2

\* Component-wise sum of two tuples of counters.
Plus(c1, c2) == [i \in 1..4 |-> c1[i] + c2[i]]

\* C15 - Sentence isolation and additivity: the handling of a blank line ends
\* with expect_words, actual_words, expect_word_frag and actual_word_frag all
\* empty, and with the counters increased, component by component, by exactly
\* the counters that the evaluation of that sentence alone returns; the
\* counters of several sentences are therefore the sum of the sentences' own,
\* in whatever order the sentences come.
C15_IsolationAndAdditivity ==
  [][pc = "assert" =>
       /\ pc' = "read"
       /\ expect_words' = <<>> /\ actual_words' = <<>>
       /\ expect_word_frag' = <<>> /\ actual_word_frag' = <<>>
       /\ counters' = Plus(counters_before', EvaluateAlone(expect_before', actual_before'))]_vars

C15_Witness ==
  /\ pc = "read"
  /\ sentence_count = 2
  /\ expect_word_frag = <<>>
  /\ Len(expect_before) = 1
  /\ Len(actual_before) = 2
  /\ counters_before = <<1, 0, 1, 1>>
  /\ counters = <<1, 2, 3, 2>>

\* The character offsets at which the words of a segmentation begin or end, and
\* the spans <<start offset, end offset>> of its words.
Boundaries(words) == {Len(Join(SubSeq(words, 1, i))) : i \in 0..Len(words)}
Spans(words) ==
  {<<Len(Join(SubSeq(words, 1, i - 1))), Len(Join(SubSeq(words, 1, i)))>> :
     i \in 1..Len(words)}

CommonBoundaries == Boundaries(expect_before) \cap Boundaries(actual_before)
CommonSpans == Spans(expect_before) \cap Spans(actual_before)

\* How far both accumulators have got, and how far the longer one has.
AlignedUpTo == IF Len(exs) < Len(acs) THEN Len(exs) ELSE Len(acs)
ConsumedUpTo == IF Len(exs) < Len(acs) THEN Len(acs) ELSE Len(exs)

\* The match step: the outer loop's body pops one fragment from each queue.
MatchStep == pc = "outer" /\ pc' = "inner"

\* C16 - The greedy alignment computes the span-match count: the match step is
\* entered at an offset that is a fragment boundary of both segmentations, and
\* counts a true positive iff the span it pops is a span of both; a pending
\* resync has passed over no common boundary; at every point of the alignment
\* the true positives added are the common spans ending within the part aligned
\* so far, so that after it they number the spans common to both segmentations.
C16_SpanMatchCount ==
  /\ [][MatchStep =>
          /\ Len(exs) = Len(acs)
          /\ Len(exs) \in CommonBoundaries
          /\ (tp' = tp + 1) <=> (<<Len(exs), Len(exs')>> \in CommonSpans)
          /\ (tp' = tp) <=> (<<Len(exs), Len(exs')>> \notin CommonSpans)]_vars
  /\ [](ResyncPending =>
          \A b \in CommonBoundaries : ~(AlignedUpTo <= b /\ b < ConsumedUpTo))
  /\ [](Aligning =>
          tp - counters_before[1]
            = Cardinality({sp \in CommonSpans : sp[2] <= AlignedUpTo}))
  /\ [](pc = "assert" => tp - counters_before[1] = Cardinality(CommonSpans))

C16_Witness ==
  /\ pc = "assert"
  /\ Len(expect_before) = 3
  /\ Len(actual_before) = 3
  /\ Spans(expect_before) = {<<0, 1>>, <<1, 3>>, <<3, 4>>}
  /\ Spans(actual_before) = {<<0, 1>>, <<1, 2>>, <<2, 4>>}
  /\ tp = counters_before[1] + 1
  /\ fp = counters_before[2] + 2

\* C17 - Every actual fragment is classified exactly once and expected-only pops
\* are never charged: a step that pops a fragment from actual_words increments
\* exactly one of tp and fp by one, and a step that leaves actual_words alone
\* increments neither; so tp + fp falls short of actual_token_count by the
\* actual fragments still queued while a sentence is aligned and equals it
\* otherwise, and the precision main prints is tp over tp + fp.
C17_PrecisionDenominator ==
  /\ [][Aligning =>
          /\ Len(actual_words') = Len(actual_words) - 1
               => \/ tp' = tp + 1 /\ fp' = fp
                  \/ tp' = tp /\ fp' = fp + 1
          /\ actual_words' = actual_words => tp' = tp /\ fp' = fp
          /\ Len(actual_words') \in {Len(actual_words), Len(actual_words) - 1}]_vars
  /\ [](Aligning => tp + fp = actual_token_count - Len(actual_words))
  /\ [](~Aligning => tp + fp = actual_token_count)
  /\ [](pc = "printed" => report[1] = <<tp, tp + fp>>)

C17_Witness ==
  /\ pc = "printed"
  /\ tp = 1
  /\ fp = 1
  /\ actual_token_count = 2
  /\ expected_token_count = 3
  /\ report[1] = <<1, 2>>

====
